---- MODULE Spec2Model ----
(***************************************************************************)
(* Model of the catalog synchronisation pipeline of                        *)
(* plugin.video.mediathekview:                                             *)
(*   classes/updater.py      MediathekViewUpdater (Update, GetNewestList,  *)
(*                           Import and the record decoder)                *)
(*   resources/lib/mvutils.py  _chunked_url_copier                         *)
(* Text is modelled as a sequence of one-character strings, so that        *)
(* slicing, length and comparison are computed as Python computes them.    *)
(***************************************************************************)
EXTENDS Integers, Sequences, FiniteSets, TLC

VARIABLES
    pc,             \* position of the updater's control flow
    \* ---- environment: file system, host, progress dialogs
    xzPresent,      \* _find_xz() finds a decompressor
    compfile,       \* Filmliste-akt.xz: "absent" | "partial" | "complete"
    destfile,       \* Filmliste-akt:    "absent" | "present"
    abortRequested, \* xbmc.Monitor().abortRequested()
    dlProgress,     \* download progress dialog: "none" | "open" | "closed"
    updProgress,    \* update progress dialog:   "none" | "open" | "closed"
    shown,          \* error dialogs shown by the notifier (sequence)
    \* ---- locals of GetNewestList
    manifest,       \* the Server entries of the fetched manifest
    urls,           \* the sorted mirror list (document positions)
    nexturl,        \* position of the for loop in urls
    lasturl,        \* 0 models ''
    result,         \* "None" | "ok"
    errBound,       \* whether the local name err is bound
    listOk,         \* value returned by GetNewestList: "none" | "yes" | "no"
    \* ---- attributes and locals of Import
    hasCounters,    \* self.channels ... self.film exist (set by _update_start)
    index, count, channels, shows, movies, film,
    tot_mov,        \* movie count returned by ftUpdateStart, -1 before
    records,        \* estimated number of records
    fileOpen,       \* the handle returned by open( destfile )
    inRecord,       \* the parser is inside an X array
    seen,           \* leaf tokens of the record in progress, in order
    importRet,      \* "none" | "True" | "False" | "raised"
    ending,         \* the way Import ended: "none" | "nofile" | "openfailed"
                    \* | "cancelled" | "exhausted" | "ioerror" | "raised"
    \* ---- storage backend (StoreSQLite)
    status,         \* the persisted status record
    ft,             \* calls of this run: [starts, inserts, ends]
    \* ---- observation
    attempts,       \* mirrors tried, with the state of compfile before each
    abortAt,        \* count when abortRequested became true, -1 before
    statusLog,      \* every UpdateStatus call of the run
    sumAdded,       \* sums of the values returned by ftInsertFilm
    endRet,         \* the value returned by the last ftUpdateEnd
    progress,       \* the last UpdateUpdateProgress report
    \* ---- _chunked_url_copier: arguments, locals and what it did
    cpc,            \* position of the copier
    src,            \* chunks the source has still to deliver
    header,         \* declared Content-Length, -1 when none is declared
    hasHook,        \* aborthook is not None
    total_size, total_chunks,
    chunk,          \* the chunk just read, 0 for none
    dst,            \* chunks written to the destination
    reports,        \* the reporthook calls
    hookCalls,      \* evaluations of aborthook
    reads,          \* src.read calls
    hookTrue        \* aborthook has returned true

gnlVars == << manifest, urls, nexturl, lasturl, result, errBound >>
envVars == << xzPresent, compfile, destfile, dlProgress, shown >>
impVars == << hasCounters, index, count, channels, shows, movies, film,
              tot_mov, records, fileOpen, inRecord, seen, importRet, ending,
              updProgress, progress >>
sqlVars == << status, ft, statusLog, sumAdded, endRet >>
updVars == << pc, gnlVars, envVars, impVars, sqlVars, listOk,
             abortRequested, abortAt, attempts >>
cpVars == << cpc, src, header, hasHook, total_size, total_chunks, chunk, dst,
             reports, hookCalls, reads, hookTrue >>
vars == << updVars, cpVars >>

----------------------------------------------------------------------------
(* Bounds of the model *)

MaxServers == 3
MaxRecords == 200
MaxLeaves == 2
MaxAdded == 2
MaxChunks == 3

(* Program constants *)

PollEvery == 100
ReportEvery == 1000
TitleMax == 255
FixedEstimate == 220000
EstimateThreshold == 50000
EstimateMargin == 10000
ChunkSize == 8192

----------------------------------------------------------------------------
(* Text helpers: Python slicing on sequences of characters *)

Min(a, b) == IF a < b THEN a ELSE b
Max(a, b) == IF a > b THEN a ELSE b

\* s[:n] for n >= 0
Take(s, n) == SubSeq(s, 1, Min(n, Len(s)))
\* s[n:] for n >= 0
Drop(s, n) == SubSeq(s, Min(n, Len(s)) + 1, Len(s))
\* s[a:b] for 0 <= a <= b
Slice(s, a, b) == SubSeq(s, Min(a, Len(s)) + 1, Min(b, Len(s)))

DigitChars == << "0", "1", "2", "3", "4", "5", "6", "7", "8", "9" >>
IsDigit(c) == \E i \in 1..10 : DigitChars[i] = c
DigitVal(c) == (CHOOSE i \in 1..10 : DigitChars[i] = c) - 1

\* Code point order of the characters the model uses: the digits in
\* numeric order, every other character after them.
Ord(c) == IF IsDigit(c) THEN DigitVal(c) ELSE 10

\* Python's < on str: lexicographic, a proper prefix is smaller
RECURSIVE StrLess(_, _)
StrLess(a, b) ==
    IF b = << >> THEN FALSE
    ELSE IF a = << >> THEN TRUE
    ELSE IF Ord(Head(a)) # Ord(Head(b)) THEN Ord(Head(a)) < Ord(Head(b))
    ELSE StrLess(Tail(a), Tail(b))

\* value of a string of decimal digits
RECURSIVE DigitsValue(_)
DigitsValue(s) ==
    IF s = << >> THEN 0
    ELSE 10 * DigitsValue(SubSeq(s, 1, Len(s) - 1)) + DigitVal(s[Len(s)])

IsDigits(s) == Len(s) > 0 /\ \A i \in 1..Len(s) : IsDigit(s[i])

----------------------------------------------------------------------------
(* Inputs of GetNewestList *)

NoText == << "ABSENT" >>
PrioTexts == { << "1" >>, << "2" >>, << "1", "0" >> }

\* A Server element: with or without a URL child, with or without a Prio
\* child.  The URL of an entry is identified by its document position.
ServerEntries ==
    { [hasURL |-> TRUE, prio |-> p] : p \in PrioTexts \cup { NoText } }
        \cup { [hasURL |-> FALSE, prio |-> << "1" >>] }

Manifests == UNION { [1..n -> ServerEntries] : n \in 0..MaxServers }

\* server.find( 'URL' ).text and server.find( 'Prio' ).text both succeed
HasBoth(e) == e.hasURL /\ e.prio # NoText

\* the list built by the loop over root.findall( 'Server' ): ( URL, Prio )
RECURSIVE FoundMirrors(_, _)
FoundMirrors(m, i) ==
    IF i > Len(m) THEN << >>
    ELSE IF HasBoth(m[i]) THEN << << i, m[i].prio >> >> \o FoundMirrors(m, i + 1)
    ELSE FoundMirrors(m, i + 1)

\* the comparison sorted() applies to itemgetter( 1 ): Prio is the element's
\* text, a str
KeyLess(a, b) == StrLess(a[2], b[2])

\* sorted() is stable: an element goes behind every element not greater
RECURSIVE InsertSorted(_, _)
InsertSorted(s, e) ==
    IF s = << >> THEN << e >>
    ELSE IF KeyLess(e, Head(s)) THEN << e >> \o s
    ELSE << Head(s) >> \o InsertSorted(Tail(s), e)

RECURSIVE Sorted(_)
Sorted(s) ==
    IF s = << >> THEN << >>
    ELSE InsertSorted(Sorted(SubSeq(s, 1, Len(s) - 1)), s[Len(s)])

\* urls = [ url[0] for url in sorted( urls, key = itemgetter( 1 ) ) ]
MirrorList(m) ==
    LET t == Sorted(FoundMirrors(m, 1))
    IN  [i \in 1..Len(t) |-> t[i][1]]

----------------------------------------------------------------------------
(* The record in progress *)

Str1980 == << "1", "9", "8", "0", "-", "0", "1", "-", "0", "1", " ",
              "0", "0", ":", "0", "0", ":", "0", "0" >>
StrZeroTime == << "0", "0", ":", "0", "0", ":", "0", "0" >>

\* self.film as _update_start builds it
NewFilm ==
    [ channel |-> << >>, show |-> << >>, title |-> << >>,
      aired |-> Str1980, duration |-> StrZeroTime, size |-> 0,
      description |-> << >>, website |-> << >>, url_sub |-> << >>,
      url_video |-> << >>, url_video_sd |-> << >>, url_video_hd |-> << >>,
      airedepoch |-> 0, geo |-> << >>, suburl_subtitles |-> NoText ]

NoStatus == [ status |-> "IDLE", description |-> "none",
              added |-> << 0, 0, 0 >>, deleted |-> << 0, 0, 0 >>,
              total |-> << 0, 0, 0 >> ]

NoCalls == [ starts |-> 0, inserts |-> 0, ends |-> << >> ]
NoReport == [ percent |-> -1, count |-> -1 ]

\* the copier before it is called
CopierIdle ==
    /\ cpc = "off"
    /\ src = << >>
    /\ header = -1
    /\ hasHook = FALSE
    /\ total_size = 0
    /\ total_chunks = 0
    /\ chunk = 0
    /\ dst = << >>
    /\ reports = << >>
    /\ hookCalls = 0
    /\ reads = 0
    /\ hookTrue = FALSE

\* the updater after __init__( id, logger, notifier, settings ), in a
\* file system that may hold the files of an earlier run
UpdaterInit(XzStates, CompStates, DestStates) ==
    /\ pc = "idle"
    /\ xzPresent \in XzStates
    /\ compfile \in CompStates
    /\ destfile \in DestStates
    /\ abortRequested = FALSE
    /\ dlProgress = "none"
    /\ updProgress = "none"
    /\ shown = << >>
    /\ manifest = << >>
    /\ urls = << >>
    /\ nexturl = 1
    /\ lasturl = 0
    /\ result = "None"
    /\ errBound = FALSE
    /\ listOk = "none"
    /\ hasCounters = FALSE
    /\ index = 0
    /\ count = 0
    /\ channels = 0
    /\ shows = 0
    /\ movies = 0
    /\ film = NewFilm
    /\ tot_mov = -1
    /\ records = 0
    /\ fileOpen = FALSE
    /\ inRecord = FALSE
    /\ seen = << >>
    /\ importRet = "none"
    /\ ending = "none"
    /\ status = NoStatus
    /\ ft = NoCalls
    /\ attempts = << >>
    /\ abortAt = -1
    /\ statusLog = << >>
    /\ sumAdded = << 0, 0, 0 >>
    /\ endRet = << >>
    /\ progress = NoReport

Init ==
    /\ UpdaterInit(BOOLEAN, { "absent", "complete" }, { "absent", "present" })
    /\ CopierIdle

----------------------------------------------------------------------------
(* Update and GetNewestList *)

\* Update: the storage object is created and initialised, GetNewestList is
\* entered
Update ==
    /\ pc = "idle"
    /\ pc' = "gnl"
    /\ UNCHANGED << gnlVars, envVars, impVars, sqlVars, listOk,
                    abortRequested, abortAt, attempts >>
    /\ UNCHANGED cpVars

\* GetNewestList, no xz binary
GetNewestList_NoXz ==
    /\ pc = "gnl"
    /\ ~xzPresent
    /\ shown' = Append(shown, << "MissingXZ", 0 >>)
    /\ listOk' = "no"
    /\ pc' = "gnl_ret"
    /\ UNCHANGED << gnlVars, xzPresent, compfile, destfile, dlProgress,
                    impVars, sqlVars, abortRequested, abortAt, attempts >>
    /\ UNCHANGED cpVars

\* GetNewestList, urlopen of the manifest raises: the except clause names
\* URLError, which the module does not import, so the exception leaves
\* GetNewestList and Update
GetNewestList_FetchFails ==
    /\ pc = "gnl"
    /\ xzPresent
    /\ pc' = "raised"
    /\ UNCHANGED << gnlVars, envVars, impVars, sqlVars, listOk,
                    abortRequested, abortAt, attempts >>
    /\ UNCHANGED cpVars

\* GetNewestList, manifest read: the mirror list is built and sorted, old
\* downloads are removed, the download dialog opens
GetNewestList_Resolve ==
    /\ pc = "gnl"
    /\ xzPresent
    /\ \E m \in Manifests :
        /\ manifest' = m
        /\ urls' = MirrorList(m)
    /\ compfile' = "absent"
    /\ destfile' = "absent"
    /\ dlProgress' = "open"
    /\ lasturl' = 0
    /\ result' = "None"
    /\ pc' = "gnl_loop"
    /\ UNCHANGED << nexturl, errBound, xzPresent, shown, impVars, sqlVars,
                    listOk, abortRequested, abortAt, attempts >>
    /\ UNCHANGED cpVars

\* what urllib.urlretrieve can do with one mirror: "ok" the file is
\* written completely; "refused" IOError before the file is opened;
\* "broken" IOError after a part of the file is written
Outcomes == { "ok", "refused", "broken" }

\* variant: the loop goes on after a successful download (no break)
GetNewestList_TryMirror_NoBreak ==
    /\ pc = "gnl_loop"
    /\ nexturl <= Len(urls)
    /\ lasturl' = urls[nexturl]
    /\ \E o \in Outcomes :
        /\ attempts' = Append(attempts, [ url |-> urls[nexturl],
                                          found |-> compfile, outcome |-> o ])
        /\ \/ /\ o = "ok"
              /\ compfile' = "complete"
              /\ result' = "ok"
              /\ nexturl' = nexturl + 1
              /\ pc' = IF nexturl = Len(urls) THEN "gnl_decompress" ELSE pc
              /\ UNCHANGED errBound
           \/ /\ o # "ok"
              /\ compfile' = IF o = "broken" THEN "partial" ELSE compfile
              /\ errBound' = TRUE
              /\ nexturl' = nexturl + 1
              /\ UNCHANGED << result, pc >>
    /\ UNCHANGED << manifest, urls, xzPresent, destfile, dlProgress, shown,
                    impVars, sqlVars, listOk, abortRequested, abortAt >>
    /\ UNCHANGED cpVars

\* one iteration of the loop over urls
GetNewestList_TryMirror ==
    /\ pc = "gnl_loop"
    /\ nexturl <= Len(urls)
    /\ lasturl' = urls[nexturl]
    /\ \E o \in Outcomes :
        /\ attempts' = Append(attempts, [ url |-> urls[nexturl],
                                          found |-> compfile, outcome |-> o ])
        /\ \/ /\ o = "ok"
              /\ compfile' = "complete"
              /\ result' = "ok"
              /\ pc' = "gnl_decompress"
              /\ UNCHANGED << nexturl, errBound >>
           \/ /\ o # "ok"
              /\ compfile' = IF o = "broken" THEN "partial" ELSE compfile
              /\ errBound' = TRUE
              /\ nexturl' = nexturl + 1
              /\ UNCHANGED << result, pc >>
    /\ UNCHANGED << manifest, urls, xzPresent, destfile, dlProgress, shown,
                    impVars, sqlVars, listOk, abortRequested, abortAt >>
    /\ UNCHANGED cpVars

\* the loop ended with result None: ShowDowloadError( lasturl, err ) reads
\* the name err, which is bound only by a failed attempt
GetNewestList_NoDownload ==
    /\ pc = "gnl_loop"
    /\ nexturl > Len(urls)
    /\ result = "None"
    /\ dlProgress' = "closed"
    /\ IF errBound
       THEN /\ shown' = Append(shown, << "DownloadError", lasturl >>)
            /\ listOk' = "no"
            /\ pc' = "gnl_ret"
       ELSE /\ pc' = "raised"
            /\ UNCHANGED << shown, listOk >>
    /\ UNCHANGED << gnlVars, xzPresent, compfile, destfile, impVars, sqlVars,
                    abortRequested, abortAt, attempts >>
    /\ UNCHANGED cpVars

\* subprocess.call( [ xzbin, '-d', compfile ] ): "ok" the file is
\* decompressed in place; "failed" xz exits nonzero; "nofile" xz exits 0 and
\* the expected file is not there
XzOutcomes == { "ok", "failed", "nofile" }

GetNewestList_Decompress ==
    /\ pc = "gnl_decompress"
    /\ \E o \in XzOutcomes :
        /\ compfile' = IF o = "failed" THEN compfile ELSE "absent"
        /\ destfile' = IF o = "ok" THEN "present" ELSE destfile
        /\ listOk' = IF o = "ok" THEN "yes" ELSE "no"
    /\ dlProgress' = "closed"
    /\ pc' = "gnl_ret"
    /\ UNCHANGED << gnlVars, xzPresent, shown, impVars, sqlVars,
                    abortRequested, abortAt, attempts >>
    /\ UNCHANGED cpVars

\* variant: Update enters Import whatever GetNewestList returned
Update_AfterList_Always ==
    /\ pc = "gnl_ret"
    /\ pc' = "import"
    /\ manifest' = << >>
    /\ urls' = << >>
    /\ nexturl' = 1
    /\ lasturl' = 0
    /\ result' = "None"
    /\ errBound' = FALSE
    /\ attempts' = << >>
    /\ UNCHANGED << envVars, impVars, sqlVars, listOk, abortRequested,
                    abortAt >>
    /\ UNCHANGED cpVars

\* back in Update: the locals of GetNewestList are gone; Import is entered
\* if the list is there, else the storage object is closed
Update_AfterList ==
    /\ pc = "gnl_ret"
    /\ pc' = IF listOk = "yes" THEN "import" ELSE "done"
    /\ manifest' = << >>
    /\ urls' = << >>
    /\ nexturl' = 1
    /\ lasturl' = 0
    /\ result' = "None"
    /\ errBound' = FALSE
    /\ attempts' = << >>
    /\ UNCHANGED << envVars, impVars, sqlVars, listOk, abortRequested,
                    abortAt >>
    /\ UNCHANGED cpVars

----------------------------------------------------------------------------
(* The record decoder: _init_record, _add_value, _make_url *)

\* _init_record: channel and show are not assigned
InitRecord(f) ==
    [ f EXCEPT !.title = << >>, !.aired = Str1980, !.duration = StrZeroTime,
               !.size = 0, !.description = << >>, !.website = << >>,
               !.url_sub = << >>, !.url_video = << >>,
               !.url_video_sd = << >>, !.url_video_hd = << >>,
               !.airedepoch = 0, !.geo = << >> ]

\* value.strip(): blanks at both ends are removed
RECURSIVE LStrip(_)
LStrip(s) == IF s # << >> /\ Head(s) = " " THEN LStrip(Tail(s)) ELSE s
RECURSIVE RStrip(_)
RStrip(s) ==
    IF s # << >> /\ s[Len(s)] = " " THEN RStrip(SubSeq(s, 1, Len(s) - 1)) ELSE s
Strip(s) == RStrip(LStrip(s))

\* the argument Import passes to _add_value: "" for a null leaf
NullLeaf == << "NULL" >>
LeafArg(value) == IF value = NullLeaf THEN << >> ELSE Strip(value)

\* int( s ) returns a value: an optional sign and decimal digits
IntParses(s) ==
    \/ IsDigits(s)
    \/ Len(s) > 1 /\ s[1] \in { "-", "+" } /\ IsDigits(Tail(s))
IntOf(s) ==
    IF IsDigits(s) THEN DigitsValue(s)
    ELSE IF s[1] = "-" THEN 0 - DigitsValue(Tail(s))
    ELSE DigitsValue(Tail(s))

\* val.split( '|' )
Bars(s) == { i \in 1..Len(s) : s[i] = "|" }
SplitsInTwo(s) == Cardinality(Bars(s)) = 1
BarAt(s) == CHOOSE i \in Bars(s) : TRUE
BeforeBar(s) == SubSeq(s, 1, BarAt(s) - 1)
AfterBar(s) == SubSeq(s, BarAt(s) + 1, Len(s))

\* s[:cnt] for any integer cnt
Prefix(s, cnt) == IF cnt >= 0 THEN Take(s, cnt) ELSE Take(s, Max(Len(s) + cnt, 0))

\* _make_url raises ValueError
MakeUrlRaises(val) == SplitsInTwo(val) /\ ~IntParses(BeforeBar(val))

\* _make_url
MakeUrl(f, val) ==
    IF SplitsInTwo(val)
    THEN Prefix(f.url_video, IntOf(BeforeBar(val))) \o AfterBar(val)
    ELSE val

\* _add_value raises ValueError: int() or _make_url on a value that is no
\* integer
AddValueRaises(i, val) ==
    \/ i \in { 6, 16 } /\ val # << >> /\ ~IntParses(val)
    \/ i \in { 12, 14 } /\ MakeUrlRaises(val)

\* variant: the time is appended to whatever aired holds
TimeApplies_AnyDate(f, val) == Len(val) = 8

\* the test of position 4: aired is no longer the default and the value has
\* 8 characters
TimeApplies(f, val) == f.aired # Str1980 /\ Len(val) = 8

\* _add_value: the record after the value at position i is decoded
AddValue(f, i, val) ==
    CASE i = 0 -> IF val # << >> THEN [f EXCEPT !.channel = val] ELSE f
      [] i = 1 -> IF val # << >> THEN [f EXCEPT !.show = Take(val, TitleMax)] ELSE f
      [] i = 2 -> [f EXCEPT !.title = Take(val, TitleMax)]
      [] i = 3 -> IF Len(val) = 10
                  THEN [f EXCEPT !.aired = Drop(val, 6) \o << "-" >>
                                     \o Slice(val, 3, 5) \o << "-" >> \o Take(val, 2)]
                  ELSE f
      [] i = 4 -> IF TimeApplies(f, val)
                  THEN [f EXCEPT !.aired = f.aired \o << " " >> \o val]
                  ELSE f
      [] i = 5 -> IF Len(val) = 8 THEN [f EXCEPT !.duration = val] ELSE f
      [] i = 6 -> IF val # << >> THEN [f EXCEPT !.size = IntOf(val)] ELSE f
      [] i = 7 -> [f EXCEPT !.description = val]
      [] i = 8 -> [f EXCEPT !.url_video = val]
      [] i = 9 -> [f EXCEPT !.website = val]
      [] i = 10 -> [f EXCEPT !.suburl_subtitles = val]
      [] i = 12 -> [f EXCEPT !.url_video_sd = MakeUrl(f, val)]
      [] i = 14 -> [f EXCEPT !.url_video_hd = MakeUrl(f, val)]
      [] i = 16 -> IF val # << >> THEN [f EXCEPT !.airedepoch = IntOf(val)] ELSE f
      [] i = 18 -> [f EXCEPT !.geo = val]
      [] OTHER -> f

----------------------------------------------------------------------------
(* Import *)

\* variant: a count at the threshold still gets the fixed estimate
EstimateRecords_Inclusive(mov) ==
    IF mov <= EstimateThreshold THEN FixedEstimate ELSE mov + EstimateMargin

\* records = 220000 if tot_mov < 50000 else tot_mov + 10000
EstimateRecords(mov) ==
    IF mov < EstimateThreshold THEN FixedEstimate ELSE mov + EstimateMargin

\* self.count % 1000 == 0, tested by _end_record before count is incremented
ReportDue(c) == c % ReportEvery = 0

\* percent = self.count * 100 / records (integer division)
Percent(c, recs) == (c * 100) \div recs

\* variant: the abort flag polled at the granularity of the progress report
PollDue_AtReport(c) == c % ReportEvery = 0

\* self.count % 100 == 0, tested by Import after _end_record
PollDue(c) == c % PollEvery = 0

\* variant: the returned count assigned instead of added
Accumulate_Assign(cur, cnt) == cnt

\* the counters after the values returned by ftInsertFilm are added
Accumulate(cur, cnt) == cur + cnt

\* status and description of the three ways Import ends the update
AbortedStatus == "ABORTED"
AbortedText == "30959"
FinishedStatus == "IDLE"
FinishedText == "30958"
\* variant: the IOError handler persists the status of a finished run
FailedStatus_Idle == "IDLE"
FailedStatus == "ABORTED"
FailedText == "30960:IOError"

\* ftUpdateEnd returns ( del_chn, del_shw, del_mov, cnt_chn, cnt_shw, cnt_mov )
EndReturns == { << 0, 0, 0, 1, 1, 1 >>, << 1, 0, 2, 3, 4, 5 >> }

\* ftUpdateStart returns ( tot_chn, tot_shw, tot_mov ): the values of tot_mov
PriorMovies == { 0 }

\* ftInsertFilm returns ( filmid, cnt_chn, cnt_shw, cnt_mov ), each count
\* 0 or 1; the run adds at most MaxAdded entities in all
InsertReturns(ch, sh, mo) ==
    { r \in { 0, 1 } \X { 0, 1 } \X { 0, 1 } :
        ch + sh + mo + r[1] + r[2] + r[3] <= MaxAdded }

\* _update_end( aborted, st, desc ) with the counters ch, sh, mo, after the
\* storage calls f of the run: ftUpdateEnd( aborted ), then UpdateStatus
\* with the counters of the run and the counts ftUpdateEnd returned
UpdateEnd(f, aborted, st, desc, ch, sh, mo) ==
    \E r \in EndReturns :
        /\ ft' = [f EXCEPT !.ends = Append(@, aborted)]
        /\ endRet' = r
        /\ status' = [ status |-> st, description |-> desc,
                       added |-> << ch, sh, mo >>,
                       deleted |-> << r[1], r[2], r[3] >>,
                       total |-> << r[4], r[5], r[6] >> ]
        /\ statusLog' = Append(statusLog, st)

\* Import up to the for loop: the file is missing (return False), or it is
\* opened, _update_start resets the attributes, persists UPDATING and
\* starts the update, the progress dialog opens; ftUpdateStart returns a
\* movie count of Priors
Import_OpenWith(Priors) ==
    /\ pc = "import"
    /\ IF destfile # "present"
       THEN /\ importRet' = "False"
            /\ ending' = "nofile"
            /\ pc' = "imp_ret"
            /\ UNCHANGED << hasCounters, index, count, channels, shows,
                            movies, film, tot_mov, records, fileOpen, inRecord, seen,
                            updProgress, progress, sqlVars >>
       ELSE /\ fileOpen' = TRUE
            /\ inRecord' = FALSE
            /\ seen' = << >>
            /\ hasCounters' = TRUE
            /\ channels' = 0
            /\ shows' = 0
            /\ movies' = 0
            /\ index' = 0
            /\ count' = 0
            /\ film' = NewFilm
            /\ status' = [status EXCEPT !.status = "UPDATING"]
            /\ statusLog' = Append(statusLog, "UPDATING")
            /\ ft' = [ft EXCEPT !.starts = @ + 1]
            /\ \E t \in Priors :
                /\ tot_mov' = t
                /\ records' = EstimateRecords(t)
            /\ updProgress' = "open"
            /\ pc' = "imp_loop"
            /\ UNCHANGED << importRet, ending, progress, sumAdded, endRet >>
    /\ UNCHANGED << gnlVars, envVars, listOk, abortRequested, abortAt,
                    attempts >>
    /\ UNCHANGED cpVars

Import_Open == Import_OpenWith(PriorMovies)

\* open( destfile ) raises IOError: the handler calls _update_end before
\* _update_start has run.  Without the attributes of an earlier run its
\* first statement raises AttributeError; with them the update is ended
\* and ABORTED persisted, and file.close() raises for the unbound name.
\* Either exception is swallowed and Import returns False.
Import_OpenFails ==
    /\ pc = "import"
    /\ destfile = "present"
    /\ IF hasCounters
       THEN /\ UpdateEnd(ft, TRUE, FailedStatus, FailedText, channels, shows, movies)
            /\ updProgress' = "closed"
       ELSE UNCHANGED << sqlVars, updProgress >>
    /\ importRet' = "False"
    /\ ending' = "openfailed"
    /\ pc' = "imp_ret"
    /\ UNCHANGED << gnlVars, envVars, listOk, abortRequested, abortAt,
                    attempts, hasCounters, index, count, channels, shows,
                    movies, film, tot_mov, records, fileOpen, inRecord, seen, progress,
                    sumAdded >>
    /\ UNCHANGED cpVars

\* counts at which the host may raise the abort flag
CancelPoints == { 0, PollEvery - 1, PollEvery, PollEvery + PollEvery \div 2 }

\* leaf values of the token stream of a long run
SyncLeaves == { NullLeaf, << "a" >> }

\* the host raises the abort flag; it stays raised
RequestAbort ==
    /\ pc \in { "import", "imp_loop" }
    /\ ~abortRequested
    /\ count \in CancelPoints
    /\ abortRequested' = TRUE
    /\ abortAt' = count
    /\ UNCHANGED << pc, gnlVars, envVars, impVars, sqlVars, listOk, attempts >>
    /\ UNCHANGED cpVars

\* token ( "X", "start_array" ): _init_record; the stream holds at most
\* limit records
Import_Start(limit) ==
    /\ pc = "imp_loop"
    /\ ~inRecord
    /\ count < limit
    /\ inRecord' = TRUE
    /\ seen' = << >>
    /\ index' = 0
    /\ film' = InitRecord(film)
    /\ UNCHANGED << pc, gnlVars, envVars, sqlVars, listOk, abortRequested,
                    abortAt, attempts, hasCounters, count, channels, shows,
                    movies, tot_mov, records, fileOpen, importRet, ending,
                    updProgress, progress >>
    /\ UNCHANGED cpVars

Import_StartArray == Import_Start(MaxRecords)

\* token ( "X.item", "string" ) with a value of Vals: _add_value; a
\* ValueError raised by it leaves Import (only IOError is caught); a
\* record holds at most limit leaf tokens
Import_Leaf(Vals, limit) ==
    /\ pc = "imp_loop"
    /\ inRecord
    /\ Len(seen) < limit
    /\ \E value \in Vals :
        LET val == LeafArg(value)
        IN  /\ seen' = Append(seen, val)
            /\ IF AddValueRaises(index, val)
               THEN /\ pc' = "raised"
                    /\ importRet' = "raised"
                    /\ ending' = "raised"
                    /\ UNCHANGED << film, index >>
               ELSE /\ film' = AddValue(film, index, val)
                    /\ index' = index + 1
                    /\ UNCHANGED << pc, importRet, ending >>
    /\ UNCHANGED << gnlVars, envVars, sqlVars, listOk, abortRequested,
                    abortAt, attempts, hasCounters, count, channels, shows,
                    movies, tot_mov, records, fileOpen, inRecord, updProgress,
                    progress >>
    /\ UNCHANGED cpVars

Import_String(Vals) == Import_Leaf(Vals, MaxLeaves)

\* token ( "X", "end_array" ): _end_record reports progress, counts the
\* record, inserts it and adds the returned counts; then the abort flag is
\* polled and, if raised, the run is ended as ABORTED and Import returns True
Import_EndArray ==
    /\ pc = "imp_loop"
    /\ inRecord
    /\ inRecord' = FALSE
    /\ seen' = << >>
    /\ progress' = IF ReportDue(count)
                   THEN [ percent |-> Percent(count, records), count |-> count ]
                   ELSE progress
    /\ count' = count + 1
    /\ \E r \in InsertReturns(channels, shows, movies) :
        /\ channels' = Accumulate(channels, r[1])
        /\ shows' = Accumulate(shows, r[2])
        /\ movies' = Accumulate(movies, r[3])
        /\ sumAdded' = << sumAdded[1] + r[1], sumAdded[2] + r[2], sumAdded[3] + r[3] >>
    /\ IF PollDue(count') /\ abortRequested
       THEN /\ fileOpen' = FALSE
            /\ UpdateEnd([ft EXCEPT !.inserts = @ + 1], TRUE, AbortedStatus,
                         AbortedText, channels', shows', movies')
            /\ updProgress' = "closed"
            /\ importRet' = "True"
            /\ ending' = "cancelled"
            /\ pc' = "imp_ret"
       ELSE /\ ft' = [ft EXCEPT !.inserts = @ + 1]
            /\ UNCHANGED << pc, fileOpen, updProgress, importRet, ending, status,
                            statusLog, endRet >>
    /\ UNCHANGED << gnlVars, envVars, listOk, abortRequested, abortAt,
                    attempts, hasCounters, index, film, tot_mov, records >>
    /\ UNCHANGED cpVars

\* the parser is exhausted: the update is ended as IDLE, Import returns True
Import_Exhausted ==
    /\ pc = "imp_loop"
    /\ ~inRecord
    /\ fileOpen' = FALSE
    /\ UpdateEnd(ft, FALSE, FinishedStatus, FinishedText, channels, shows, movies)
    /\ updProgress' = "closed"
    /\ importRet' = "True"
    /\ ending' = "exhausted"
    /\ pc' = "imp_ret"
    /\ UNCHANGED << gnlVars, envVars, listOk, abortRequested, abortAt,
                    attempts, hasCounters, index, count, channels, shows,
                    movies, film, tot_mov, records, inRecord, seen, progress, sumAdded >>
    /\ UNCHANGED cpVars

\* a read of the file raises IOError while the parser is iterated: the
\* handler ends the update as ABORTED, closes the dialog and the file and
\* Import returns False
Import_IOError ==
    /\ pc = "imp_loop"
    /\ UpdateEnd(ft, TRUE, FailedStatus, FailedText, channels, shows, movies)
    /\ updProgress' = "closed"
    /\ fileOpen' = FALSE
    /\ importRet' = "False"
    /\ ending' = "ioerror"
    /\ pc' = "imp_ret"
    /\ UNCHANGED << gnlVars, envVars, listOk, abortRequested, abortAt,
                    attempts, hasCounters, index, count, channels, shows,
                    movies, film, tot_mov, records, inRecord, seen, progress, sumAdded >>
    /\ UNCHANGED cpVars

\* the parser raises on malformed or truncated JSON (ijson's JSONError is
\* no IOError): the exception leaves Import and Update
Import_ParseError ==
    /\ pc = "imp_loop"
    /\ importRet' = "raised"
    /\ ending' = "raised"
    /\ pc' = "raised"
    /\ UNCHANGED << gnlVars, envVars, listOk, abortRequested, abortAt,
                    attempts, hasCounters, index, count, channels, shows,
                    movies, film, tot_mov, records, fileOpen, inRecord, seen, updProgress,
                    progress, sqlVars >>
    /\ UNCHANGED cpVars

\* back in Update after Import returned: self.sql.Exit()
Update_Exit ==
    /\ pc = "imp_ret"
    /\ pc' = "done"
    /\ UNCHANGED << gnlVars, envVars, impVars, sqlVars, listOk,
                    abortRequested, abortAt, attempts >>
    /\ UNCHANGED cpVars

UpdaterNext ==
    \/ Update
    \/ GetNewestList_NoXz
    \/ GetNewestList_FetchFails
    \/ GetNewestList_Resolve
    \/ GetNewestList_TryMirror
    \/ GetNewestList_NoDownload
    \/ GetNewestList_Decompress
    \/ Update_AfterList
    \/ Import_Open
    \/ Import_OpenFails
    \/ RequestAbort
    \/ Import_StartArray
    \/ Import_String(SyncLeaves)
    \/ Import_EndArray
    \/ Import_Exhausted
    \/ Import_IOError
    \/ Import_ParseError
    \/ Update_Exit

Next == UpdaterNext

Spec == Init /\ [][Next]_vars

----------------------------------------------------------------------------
(* _chunked_url_copier( src, dst, reporthook, chunk_size, aborthook ) *)

\* Content-Length headers of the source: -1 none, else the declared size
Headers == { -1, 0, 20000 }

\* the sources: 0..MaxChunks non-empty chunks, numbered in source order
Sources == { [i \in 1..n |-> i] : n \in 0..MaxChunks }

CopierInit ==
    /\ cpc = "called"
    /\ src \in Sources
    /\ header \in Headers
    /\ hasHook \in BOOLEAN
    /\ total_size = 0
    /\ total_chunks = 0
    /\ chunk = 0
    /\ dst = << >>
    /\ reports = << >>
    /\ hookCalls = 0
    /\ reads = 0
    /\ hookTrue = FALSE

\* variant: the header value taken as it is, with no default
TotalSize_Declared(h) == h

\* total_size = int( Content-Length ) if the header is there else 0
TotalSize(h) == IF h >= 0 THEN h ELSE 0

\* the statements before the loop
Copier_Enter ==
    /\ cpc = "called"
    /\ total_size' = TotalSize(header)
    /\ total_chunks' = 0
    /\ cpc' = "while"
    /\ UNCHANGED << src, header, hasHook, chunk, dst, reports, hookCalls,
                    reads, hookTrue >>
    /\ UNCHANGED updVars

\* variant: the value of aborthook() is not looked at
AfterHook_Ignored(b) == "report"

\* where the loop goes after aborthook() returned b
AfterHook(b) == IF b THEN "raised" ELSE "report"

\* while not aborthook(): the hook is evaluated (lambda: False when no
\* hook is given); true leaves the loop and raises ExitRequested
Copier_While ==
    /\ cpc = "while"
    /\ \E b \in (IF hasHook THEN BOOLEAN ELSE { FALSE }) :
        /\ hookTrue' = b
        /\ cpc' = AfterHook(b)
    /\ hookCalls' = hookCalls + 1
    /\ UNCHANGED << src, header, hasHook, total_size, total_chunks, chunk,
                    dst, reports, reads >>
    /\ UNCHANGED updVars

\* reporthook( total_chunks, chunk_size, total_size )
Copier_Report ==
    /\ cpc = "report"
    /\ reports' = Append(reports, << total_chunks, ChunkSize, total_size >>)
    /\ cpc' = "read"
    /\ UNCHANGED << src, header, hasHook, total_size, total_chunks, chunk,
                    dst, hookCalls, reads, hookTrue >>
    /\ UNCHANGED updVars

\* chunk = src.read( chunk_size ); an empty chunk ends the copy
Copier_Read ==
    /\ cpc = "read"
    /\ reads' = reads + 1
    /\ IF src = << >>
       THEN /\ cpc' = "returned"
            /\ UNCHANGED << src, chunk >>
       ELSE /\ chunk' = Head(src)
            /\ src' = Tail(src)
            /\ cpc' = "write"
    /\ UNCHANGED << header, hasHook, total_size, total_chunks, dst, reports,
                    hookCalls, hookTrue >>
    /\ UNCHANGED updVars

\* src.read raises (the connection breaks): the error leaves the copier
Copier_ReadFails ==
    /\ cpc = "read"
    /\ reads' = reads + 1
    /\ cpc' = "failed"
    /\ UNCHANGED << src, header, hasHook, total_size, total_chunks, chunk,
                    dst, reports, hookCalls, hookTrue >>
    /\ UNCHANGED updVars

\* dst.write( chunk ); total_chunks += 1
Copier_Write ==
    /\ cpc = "write"
    /\ dst' = Append(dst, chunk)
    /\ total_chunks' = total_chunks + 1
    /\ chunk' = 0
    /\ cpc' = "while"
    /\ UNCHANGED << src, header, hasHook, total_size, reports, hookCalls,
                    reads, hookTrue >>
    /\ UNCHANGED updVars

CopierNext ==
    \/ Copier_Enter
    \/ Copier_While
    \/ Copier_Report
    \/ Copier_Read
    \/ Copier_ReadFails
    \/ Copier_Write

\* the updater as constructed, never run, beside a copier call
InitCopier ==
    /\ UpdaterInit({ TRUE }, { "absent" }, { "absent" })
    /\ CopierInit

NextCopier == CopierNext

SpecCopier == InitCopier /\ [][NextCopier]_vars

----------------------------------------------------------------------------
(* Properties of Import *)

ImportReturned == importRet \in { "True", "False" }
ImportStopped == importRet # "none"

\* the first count after k at which Import polls the abort flag
NextPoll(k) == (k \div PollEvery + 1) * PollEvery

\* C1 as stated: whenever the abort flag was raised after record k and
\* stayed raised, a run that started the update and has returned persisted
\* ABORTED, submitted at most k + 100 records and called
\* ftUpdateEnd( True ) exactly once.
C1_CancelAlwaysAborts ==
    (ImportReturned /\ ft.starts = 1 /\ abortAt # -1) =>
        /\ status.status = "ABORTED"
        /\ ft.inserts <= abortAt + PollEvery
        /\ ft.ends = << TRUE >>

\* C1 amended: with the abort flag raised after record k, Import submits at
\* most k + 100 records and never passes the first poll point after k; at
\* that poll point it has closed the file and the dialog, called
\* ftUpdateEnd( True ) exactly once, persisted ABORTED with the "aborted"
\* text and returned True; a run that stops before that poll point does not
\* take the cancellation path, and a stream exhausted before it ends the
\* run as IDLE with ftUpdateEnd( False ).
C1_CancelStopsAtNextPoll ==
    abortAt # -1 =>
        /\ ft.inserts <= abortAt + PollEvery
        /\ count <= NextPoll(abortAt)
        /\ count = NextPoll(abortAt) =>
            /\ ending = "cancelled"
            /\ importRet = "True"
            /\ status.status = "ABORTED"
            /\ status.description = AbortedText
            /\ ft.ends = << TRUE >>
            /\ statusLog = << "UPDATING", "ABORTED" >>
            /\ ~fileOpen
            /\ updProgress = "closed"
        /\ (ImportStopped /\ count < NextPoll(abortAt)) => ending # "cancelled"
        /\ ending = "exhausted" =>
            /\ count < NextPoll(abortAt)
            /\ status.status = FinishedStatus
            /\ ft.ends = << FALSE >>

\* the case of the specification: flag raised after record 150, run stopped
\* at record 200
C1_Witness ==
    /\ abortAt = PollEvery + PollEvery \div 2
    /\ count = 2 * PollEvery
    /\ ending = "cancelled"
    /\ ft.inserts = 2 * PollEvery

\* C2 as stated: once UPDATING is persisted, every way Import stops is
\* followed by exactly one more status write, IDLE or ABORTED, and the
\* persisted status is not UPDATING.
C2_NeverLeftUpdating ==
    (ImportStopped /\ Len(statusLog) > 0 /\ statusLog[1] = "UPDATING") =>
        /\ Len(statusLog) = 2
        /\ statusLog[2] \in { "IDLE", "ABORTED" }
        /\ status.status # "UPDATING"

\* C3: a run that ends by exhaustion of the token stream has called
\* ftUpdateEnd( False ) exactly once, has called ftInsertFilm once per record
\* end, has persisted IDLE with the added counters equal to the sums of the
\* values ftInsertFilm returned and the deleted and total counts
\* ftUpdateEnd returned, and returns True.
C3_ExhaustedEndsIdle ==
    ending = "exhausted" =>
        /\ importRet = "True"
        /\ ft.starts = 1
        /\ ft.ends = << FALSE >>
        /\ ft.inserts = count
        /\ statusLog = << "UPDATING", "IDLE" >>
        /\ status.status = "IDLE"
        /\ status.added = sumAdded
        /\ status.deleted = << endRet[1], endRet[2], endRet[3] >>
        /\ status.total = << endRet[4], endRet[5], endRet[6] >>

\* a finished run of several records in which a category was added twice,
\* with the abort flag raised but no poll point reached
C3_Witness ==
    /\ ending = "exhausted"
    /\ count >= 3
    /\ \E i \in 1..3 : sumAdded[i] = 2
    /\ abortRequested

\* C4: an IOError raised while the file is read ends the run as the
\* cancellation does: ftUpdateEnd( True ) called exactly once, ABORTED
\* persisted with the text that carries the error, the progress dialog
\* and the file closed, Import returns False.
C4_IOErrorAborts ==
    ending = "ioerror" =>
        /\ importRet = "False"
        /\ ft.ends = << TRUE >>
        /\ statusLog = << "UPDATING", "ABORTED" >>
        /\ status.status = "ABORTED"
        /\ status.description = FailedText
        /\ status.added = << channels, shows, movies >>
        /\ updProgress = "closed"
        /\ ~fileOpen

\* the error strikes in the middle of the second record
C4_Witness ==
    /\ ending = "ioerror"
    /\ count = 1
    /\ inRecord
    /\ index = 1

(* Properties of Update and GetNewestList *)

\* GetNewestList did not deliver the list: it returned False or raised
ListFailed ==
    \/ listOk = "no"
    \/ pc = "raised" /\ listOk = "none"

\* C5: when the decompressor is missing, the manifest cannot be fetched,
\* no mirror delivers or decompression fails, Import is not entered, no
\* storage update operation is called and the persisted status is the one
\* found.
C5_FailureLeavesStorage ==
    ListFailed =>
        /\ importRet = "none"
        /\ ~hasCounters
        /\ ft = NoCalls
        /\ statusLog = << >>
        /\ status = NoStatus

\* Update is over after a failed decompression
C5_Witness ==
    /\ pc = "done"
    /\ listOk = "no"
    /\ dlProgress = "closed"
    /\ shown = << >>

\* C6: the mirrors are tried in the order of the sorted list, one after
\* the other, and none after the first that delivers: the k-th attempt is
\* the k-th mirror, only the last attempt can be a success, and after a
\* success the download phase goes on to decompression without a download
\* error.
C6_MirrorsTriedInOrder ==
    /\ Len(attempts) <= Len(urls)
    /\ \A i \in 1..Len(attempts) : attempts[i].url = urls[i]
    /\ \A i \in 1..(Len(attempts) - 1) : attempts[i].outcome # "ok"
    /\ (Len(attempts) > 0 /\ attempts[Len(attempts)].outcome = "ok") =>
        /\ result = "ok"
        /\ pc \in { "gnl_decompress", "gnl_ret" }
        /\ nexturl = Len(attempts)
        /\ shown = << >>

\* the case of the specification: three mirrors, two fail, the third
\* delivers and the list is decompressed
C6_Witness ==
    /\ Len(urls) = 3
    /\ Len(attempts) = 3
    /\ attempts[1].outcome = "refused"
    /\ attempts[2].outcome = "broken"
    /\ attempts[3].outcome = "ok"
    /\ listOk = "yes"

\* the download loop of GetNewestList is over and nothing was downloaded
NothingDownloaded ==
    /\ pc \in { "gnl_ret", "raised" }
    /\ importRet = "none"
    /\ dlProgress = "closed"
    /\ result = "None"

\* C7 as stated: when every mirror fails or the mirror list is empty,
\* GetNewestList shows a download error with the last attempted URL, closes
\* the download dialog and returns False.
C7_TotalFailureReported ==
    NothingDownloaded =>
        /\ pc = "gnl_ret"
        /\ listOk = "no"
        /\ shown = << << "DownloadError", lasturl >> >>
        /\ lasturl = IF attempts = << >> THEN 0 ELSE attempts[Len(attempts)].url

\* the integer a priority text denotes
PrioValue(k) == IntOf(manifest[k].prio)

\* C8 as stated: the mirror list holds the entries that have a URL and a
\* Prio, ascending by the integer value of the priority, entries of equal
\* priority in document order.
C8_SortedByPriorityValue ==
    /\ { urls[i] : i \in DOMAIN urls } = { k \in DOMAIN manifest : HasBoth(manifest[k]) }
    /\ \A i, j \in DOMAIN urls :
        i < j => \/ PrioValue(urls[i]) < PrioValue(urls[j])
                 \/ PrioValue(urls[i]) = PrioValue(urls[j]) /\ urls[i] < urls[j]

\* C9 as stated: no attempt starts with an artifact of an earlier attempt
\* in place, and decompression starts on a complete download.
C9_NoStaleArtifact ==
    /\ \A i \in DOMAIN attempts : attempts[i].found = "absent"
    /\ pc = "gnl_decompress" => compfile = "complete"

(* Properties of _chunked_url_copier *)

\* C10: aborthook is evaluated before every read; once it has returned
\* true the copier has raised ExitRequested, and it has read, written and
\* reported exactly once for each evaluation before that one: the
\* destination holds the chunks written so far, in source order.
C10_AbortStopsCopier ==
    /\ reads <= hookCalls
    /\ cpc \in { "report", "read" } => hookCalls = reads + 1
    /\ cpc \in { "write", "returned", "failed" } => hookCalls = reads
    /\ hookTrue =>
        /\ cpc = "raised"
        /\ reads = hookCalls - 1
        /\ Len(reports) = hookCalls - 1
        /\ dst = [i \in 1..(hookCalls - 1) |-> i]
        /\ chunk = 0

\* the hook returns true after two chunks, with more to come
C10_Witness ==
    /\ hookTrue
    /\ cpc = "raised"
    /\ dst = << 1, 2 >>
    /\ src # << >>

----------------------------------------------------------------------------
(* The download phase in a host that is shutting down *)

\* the host raises the abort flag while GetNewestList is in its download
\* loop (before or during an attempt); no record is counted yet
Download_RequestAbort ==
    /\ pc = "gnl_loop"
    /\ ~abortRequested
    /\ abortRequested' = TRUE
    /\ abortAt' = count
    /\ UNCHANGED << pc, gnlVars, envVars, impVars, sqlVars, listOk, attempts >>
    /\ UNCHANGED cpVars

\* Update up to the return of GetNewestList.  urllib.urlretrieve is given
\* _reporthook, which computes a percentage and never reads the abort
\* flag, so the outcomes of an attempt do not depend on the flag.
DownloadNext ==
    \/ Update
    \/ GetNewestList_NoXz
    \/ GetNewestList_FetchFails
    \/ GetNewestList_Resolve
    \/ GetNewestList_TryMirror
    \/ GetNewestList_NoDownload
    \/ GetNewestList_Decompress
    \/ Download_RequestAbort

SpecDownload == Init /\ [][DownloadNext]_vars

\* C11 as stated: a cancellation raised while the mirrors are downloaded
\* stops the download: after it no mirror is downloaded to the end, nothing
\* is decompressed and GetNewestList does not deliver a list.
C11_AbortStopsDownload ==
    abortRequested =>
        /\ result = "None"
        /\ pc # "gnl_decompress"
        /\ listOk # "yes"

----------------------------------------------------------------------------
(* Properties of a copy that runs to its end *)

\* the chunks of the call in source order: those written, the one read and
\* not yet written, those still to come
CopierChunks ==
    dst \o (IF cpc = "write" THEN << chunk >> ELSE << >>) \o src

\* C12: no chunk is lost, doubled or reordered and each is written before
\* the next read; when the copier returns after n chunks the destination
\* holds exactly these n chunks in source order, and reporthook was called
\* n + 1 times with the chunk counts 0..n, the chunk size and the declared
\* Content-Length, 0 when none is declared.
C12_CopiesEveryChunk ==
    /\ CopierChunks \in Sources
    /\ cpc \in { "while", "report", "read" } => reads = Len(dst)
    /\ cpc = "write" => reads = Len(dst) + 1
    /\ cpc = "returned" =>
        /\ src = << >>
        /\ dst = [i \in 1..Len(dst) |-> i]
        /\ reads = Len(dst) + 1
        /\ reports = [i \in 1..(Len(dst) + 1) |->
                        << i - 1, ChunkSize, IF header >= 0 THEN header ELSE 0 >>]

\* a source without Content-Length delivered two chunks and the copier
\* returned
C12_Witness ==
    /\ cpc = "returned"
    /\ header = -1
    /\ dst = << 1, 2 >>
    /\ Len(reports) = 3

----------------------------------------------------------------------------
(* Properties of the record decoder *)

\* the fields of a record that ftInsertFilm is handed
Fields(f) ==
    << f.channel, f.show, f.title, f.aired, f.duration, f.size,
       f.description, f.website, f.url_sub, f.url_video, f.url_video_sd,
       f.url_video_hd, f.airedepoch, f.geo >>

\* the record f after the leaves are decoded from position i on
RECURSIVE DecodeFrom(_, _, _)
DecodeFrom(f, leaves, i) ==
    IF leaves = << >> THEN f
    ELSE DecodeFrom(AddValue(f, i, Head(leaves)), Tail(leaves), i + 1)

\* a record is inside its array, between two tokens
Decoding == pc = "imp_loop" /\ inRecord

\* C13 as stated: every field is reset at the record-array start, so the
\* record in progress holds what its own leaves give on a record of
\* defaults, and nothing of an earlier record.
C13_RecordIsolated ==
    Decoding => Fields(film) = Fields(DecodeFrom(NewFilm, seen, 0))

----------------------------------------------------------------------------
(* The decoder on the leaves of the film list *)

\* Import is entered: GetNewestList has downloaded and decompressed the
\* list and returned True
ImportEntry ==
    /\ pc = "import"
    /\ xzPresent = TRUE
    /\ compfile = "absent"
    /\ destfile = "present"
    /\ abortRequested = FALSE
    /\ dlProgress = "closed"
    /\ updProgress = "none"
    /\ shown = << >>
    /\ manifest = << >>
    /\ urls = << >>
    /\ nexturl = 1
    /\ lasturl = 0
    /\ result = "None"
    /\ errBound = FALSE
    /\ listOk = "yes"
    /\ hasCounters = FALSE
    /\ index = 0
    /\ count = 0
    /\ channels = 0
    /\ shows = 0
    /\ movies = 0
    /\ film = NewFilm
    /\ tot_mov = -1
    /\ records = 0
    /\ fileOpen = FALSE
    /\ inRecord = FALSE
    /\ seen = << >>
    /\ importRet = "none"
    /\ ending = "none"
    /\ status = NoStatus
    /\ ft = NoCalls
    /\ attempts = << >>
    /\ abortAt = -1
    /\ statusLog = << >>
    /\ sumAdded = << 0, 0, 0 >>
    /\ endRet = << >>
    /\ progress = NoReport

InitDecode == ImportEntry /\ CopierIdle

\* a leaf that the parser reports with the event "null" (a JSON null)
NullToken == << "null" >>

\* token ( "X.item", "null" ): no branch of the loop in Import names the
\* event, the token is passed over
Import_Null(limit) ==
    /\ pc = "imp_loop"
    /\ inRecord
    /\ Len(seen) < limit
    /\ seen' = Append(seen, NullToken)
    /\ UNCHANGED << pc, gnlVars, envVars, sqlVars, listOk, abortRequested,
                    abortAt, attempts, hasCounters, index, count, channels,
                    shows, movies, film, tot_mov, records, fileOpen, inRecord,
                    importRet, ending, updProgress, progress >>
    /\ UNCHANGED cpVars

\* the values handed to _add_value for the record in progress, in order
Strings(s) == SelectSeq(s, LAMBDA v : v # NullToken)

\* bounds of the decoded streams: records per stream, leaf tokens per record
MaxDecoded == 2
MaxFields == 5

\* leaf values: the date and the time of the example, the date with blanks
\* around it, the empty string
RawDate == << "0", "1", ".", "0", "2", ".", "2", "0", "2", "0" >>
PaddedDate == << " " >> \o RawDate \o << " " >>
RawTime == << "0", "3", ":", "0", "4", ":", "0", "5" >>
DecodeLeaves == { << >>, RawDate, PaddedDate, RawTime }

\* Import on a list of up to MaxDecoded records whose leaves are strings of
\* DecodeLeaves or nulls
DecodeNext ==
    \/ Import_OpenWith(PriorMovies)
    \/ Import_Start(MaxDecoded)
    \/ Import_Leaf(DecodeLeaves, MaxFields)
    \/ Import_Null(MaxFields)
    \/ Import_EndArray
    \/ Import_Exhausted

SpecDecode == InitDecode /\ [][DecodeNext]_vars

\* "YYYY-MM-DD" of a raw date "DD.MM.YYYY"
IsoDate(d) ==
    SubSeq(d, 7, 10) \o << "-" >> \o SubSeq(d, 4, 5) \o << "-" >> \o SubSeq(d, 1, 2)

MidnightText == << " ", "0", "0", ":", "0", "0", ":", "0", "0" >>

\* C14 as stated: once a date of 10 characters is decoded at position 3,
\* aired is "YYYY-MM-DD 00:00:00", and once a time of 8 characters follows
\* at position 4 it is "YYYY-MM-DD hh:mm:ss".
C14_DateThenTime ==
    Decoding =>
        LET vals == Strings(seen)
        IN  /\ (Len(vals) = 4 /\ Len(vals[4]) = 10) =>
                    film.aired = IsoDate(vals[4]) \o MidnightText
            /\ (Len(vals) = 5 /\ Len(vals[4]) = 10 /\ Len(vals[5]) = 8) =>
                    film.aired = IsoDate(vals[4]) \o << " " >> \o vals[5]

----------------------------------------------------------------------------
(* The decoder on the URL fields *)

\* leaf tokens per record: the positions up to url_video_hd
MaxUrlFields == 15

\* positions of url_video, url_video_sd and url_video_hd
UrlPositions == { 8, 12, 14 }

\* values of the URL leaves: a literal URL, a prefix count and a suffix, a
\* word before the bar, two bars, a negative count
UrlTexts ==
    { << "a", "b", "c", "d" >>,
      << "2", "|", "x", "y" >>,
      << "x", "|", "y" >>,
      << "1", "|", "2", "|", "3" >>,
      << "-", "1", "|", "z" >> }

\* the values the next leaf of a record can have when only the URL fields
\* are filled
UrlLeaves == IF index \in UrlPositions THEN UrlTexts ELSE { << >> }

UrlNext ==
    \/ Import_OpenWith(PriorMovies)
    \/ Import_Start(MaxDecoded)
    \/ Import_Leaf(UrlLeaves, MaxUrlFields)
    \/ Import_EndArray
    \/ Import_Exhausted

SpecUrls == InitDecode /\ [][UrlNext]_vars

\* raw has the form "<N>|<suffix>", N a non-negative integer
IsPrefixForm(raw) == SplitsInTwo(raw) /\ IsDigits(BeforeBar(raw))

\* what the claim says a raw url_video_sd / url_video_hd becomes
Expanded(url, raw) ==
    IF IsPrefixForm(raw)
    THEN SubSeq(url, 1, Min(DigitsValue(BeforeBar(raw)), Len(url))) \o AfterBar(raw)
    ELSE raw

\* C15 as stated: url_video_sd and url_video_hd are the first N characters
\* of the record's url_video followed by the suffix for a raw "<N>|<suffix>"
\* and the raw value for every other form, and no value makes the decoder
\* raise.
C15_UrlExpansion ==
    /\ ending # "raised"
    /\ Decoding =>
        LET vals == Strings(seen)
        IN  /\ Len(vals) >= 13 => film.url_video_sd = Expanded(vals[9], vals[13])
            /\ Len(vals) >= 15 => film.url_video_hd = Expanded(vals[9], vals[15])

----------------------------------------------------------------------------
(* The decoder on long show names and titles *)

\* leaf tokens per record: channel, show, title
MaxTitleFields == 3

\* a text of n characters, each place told from its neighbours
TextOf(n) == [i \in 1..n |-> DigitChars[(i % 10) + 1]]

\* leaf values: empty, short, of the longest length kept, one character
\* longer, and the 300 characters of the specification's example
TitleLeaves ==
    { << >>, << "a" >>, TextOf(TitleMax), TextOf(TitleMax + 1), TextOf(300) }

TitleNext ==
    \/ Import_OpenWith(PriorMovies)
    \/ Import_Start(MaxDecoded)
    \/ Import_Leaf(TitleLeaves, MaxTitleFields)
    \/ Import_EndArray
    \/ Import_Exhausted

SpecTitles == InitDecode /\ [][TitleNext]_vars

\* the first 255 characters of a raw value, the value itself if it is
\* shorter
Clipped(raw) == IF Len(raw) > 255 THEN SubSeq(raw, 1, 255) ELSE raw

\* C16 as stated: in the record in progress, and so in every record handed
\* to ftInsertFilm, show and title have at most 255 characters: the first
\* 255 of a longer raw value, a shorter raw value unchanged.
C16_ShowAndTitleClipped ==
    Decoding =>
        LET vals == Strings(seen)
        IN  /\ Len(film.show) <= 255
            /\ Len(film.title) <= 255
            /\ Len(vals) >= 2 => film.show = Clipped(vals[2])
            /\ Len(vals) >= 3 => film.title = Clipped(vals[3])

----------------------------------------------------------------------------
(* Properties of aired *)

\* C17: aired of the record in progress is the default unless the value
\* decoded at position 3 of this record had exactly 10 characters; it is
\* that date alone unless the value decoded at position 4 had exactly 8
\* characters, and a time decoded while aired is the default changes
\* nothing.
C17_AiredGuarded ==
    Decoding =>
        LET vals == Strings(seen)
            dated == Len(vals) >= 4 /\ Len(vals[4]) = 10
            timed == Len(vals) >= 5 /\ Len(vals[5]) = 8
        IN  /\ ~dated => film.aired = Str1980
            /\ (dated /\ ~timed) => film.aired = IsoDate(vals[4])
            /\ (dated /\ timed) =>
                    film.aired = IsoDate(vals[4]) \o << " " >> \o vals[5]

\* in the second record a time of 8 characters was decoded at position 4
\* after an empty date, and aired is the default
C17_Witness ==
    /\ Decoding
    /\ count = 1
    /\ seen = << << >>, << >>, << >>, << >>, RawTime >>
    /\ index = 5
    /\ film.aired = Str1980

----------------------------------------------------------------------------
(* Properties of the positional cursor *)

\* C18 as stated: the cursor is 0 after a record-array start and grows by
\* one with every leaf token of the record, a null leaf included: between
\* two tokens it is the number of leaf tokens seen since the start.
C18_CursorCountsLeaves ==
    Decoding => index = Len(seen)

----------------------------------------------------------------------------
(* The progress reports of a long import *)

\* records of the list: the reports at 0, 1000 and 2000 records happen
MaxReported == 2001

\* movie counts ftUpdateStart returns: none, just below and at the
\* threshold of the estimate, well above it
ProgressPriors == { 0, EstimateThreshold - 1, EstimateThreshold, 4 * EstimateThreshold }

ProgressNext ==
    \/ Import_OpenWith(ProgressPriors)
    \/ Import_Start(MaxReported)
    \/ Import_EndArray
    \/ Import_Exhausted

SpecProgress == InitDecode /\ [][ProgressNext]_vars

\* the estimated total the claim names for a prior movie count
EstimatedTotal(prior) == IF prior < 50000 THEN 220000 ELSE prior + 10000

\* the report the claim names after k records are processed
ReportAt(k, prior) ==
    [ percent |-> (k * 100) \div EstimatedTotal(prior), count |-> k ]

\* the last multiple of 1000 at which a record ended, c > 0 records ended
LastDue(c) == ((c - 1) \div 1000) * 1000

\* C19: in a run of Import the last report is the one for the last
\* multiple of 1000 records processed, with percent = records processed *
\* 100 / estimated total (220000 for a prior movie count below 50000, the
\* prior count + 10000 otherwise); a record end reports exactly when the
\* number processed before it is a multiple of 1000, and the percent never
\* decreases from a report to the next.
C19_ProgressReports ==
    /\ [](ft.starts = 1 =>
            progress = IF count = 0 THEN NoReport
                       ELSE ReportAt(LastDue(count), tot_mov))
    /\ [][ /\ (count' = count + 1 /\ count % 1000 = 0) =>
                    progress' = ReportAt(count, tot_mov) /\ progress' # progress
           /\ (count' = count + 1 /\ count % 1000 # 0) => progress' = progress
           /\ progress'.percent >= progress.percent ]_vars

\* after 2001 records of a run that found 50000 movies the last report is
\* the third: 3 percent at 2000 records
C19_Witness ==
    /\ pc = "imp_loop"
    /\ tot_mov = 50000
    /\ count = 2001
    /\ progress = [ percent |-> 3, count |-> 2000 ]

----------------------------------------------------------------------------
(* Update called again on the same updater *)

\* Update is called once more after it returned: a new storage object is
\* created, the locals of the last run are gone, the attributes that
\* _update_start set (channels, shows, movies, index, count, film) and the
\* files are as the last run left them
Update_Again ==
    /\ pc = "done"
    /\ pc' = "gnl"
    /\ listOk' = "none"
    /\ dlProgress' = "none"
    /\ updProgress' = "none"
    /\ shown' = << >>
    /\ tot_mov' = -1
    /\ records' = 0
    /\ fileOpen' = FALSE
    /\ inRecord' = FALSE
    /\ seen' = << >>
    /\ importRet' = "none"
    /\ ending' = "none"
    /\ progress' = NoReport
    /\ ft' = NoCalls
    /\ statusLog' = << >>
    /\ sumAdded' = << 0, 0, 0 >>
    /\ endRet' = << >>
    /\ UNCHANGED << gnlVars, xzPresent, compfile, destfile, hasCounters,
                    index, count, channels, shows, movies, film, status,
                    abortRequested, abortAt, attempts >>
    /\ UNCHANGED cpVars

\* runs of Update one after the other, each on a list of up to MaxDecoded
\* records
RerunNext ==
    \/ Update
    \/ GetNewestList_NoXz
    \/ GetNewestList_FetchFails
    \/ GetNewestList_Resolve
    \/ GetNewestList_TryMirror
    \/ GetNewestList_NoDownload
    \/ GetNewestList_Decompress
    \/ Update_AfterList
    \/ Import_OpenWith(PriorMovies)
    \/ Import_OpenFails
    \/ Import_Start(MaxDecoded)
    \/ Import_EndArray
    \/ Import_Exhausted
    \/ Import_IOError
    \/ Update_Exit
    \/ Update_Again

SpecRerun == Init /\ [][RerunNext]_vars

\* C20 as stated: the storage calls of a run are UpdateStatus( UPDATING )
\* and ftUpdateStart, then ftInsertFilm any number of times, then at most
\* one ftUpdateEnd followed by the final UpdateStatus; ftInsertFilm and
\* ftUpdateEnd are not called in a run that has not called ftUpdateStart.
C20_ProtocolOrder ==
    /\ ft.starts <= 1
    /\ Len(ft.ends) <= 1
    /\ ft.inserts > 0 => ft.starts = 1
    /\ ft.ends # << >> => ft.starts = 1 /\ ImportStopped
    /\ statusLog \in { << >>, << "UPDATING" >>, << "UPDATING", "IDLE" >>,
                       << "UPDATING", "ABORTED" >> }
    /\ statusLog # << >> <=> ft.starts = 1
    /\ Len(statusLog) = 2 <=> Len(ft.ends) = 1

====
